---- MODULE Spec2Model ----
(***************************************************************************)
(* A model of the calendar components of iCalLibrary:                      *)
(*   - AbstractComponentWithDuration (the master entity: VEVENT, VTODO,    *)
(*     VJOURNAL) with its required properties, its derived and memoized    *)
(*     start / end / computed_duration, and its equality;                  *)
(*   - AbstractRecurringComponentWithDuration (the occurrence, a view on   *)
(*     its master) with its attribute dispatch;                            *)
(*   - VJournal.expand_component_in_range, the generator of occurrences.   *)
(*                                                                         *)
(* Values.  An Optional value is a sequence: <<>> is Python's None and     *)
(* <<v>> is the value v.  Instants are the integers 1..MaxTime, durations  *)
(* are integers (timedelta), property payloads are tokens 1..MaxVal.       *)
(***************************************************************************)
EXTENDS Integers, Sequences, FiniteSets, TLC

VARIABLES
    kind,      \* the concrete class of the master: "VEVENT", "VTODO", "VJOURNAL"
    master,    \* the instance attributes of the master entity
    cache,     \* the per-instance memo of start / end / computed_duration
    gen,       \* the generator object of expand_component_in_range
    emitted,   \* what the generator has yielded so far, in order
    nwrites,   \* how many attribute writes were made on occurrences
    result     \* the last operation performed and what it returned or raised

vars == <<kind, master, cache, gen, emitted, nwrites, result>>

----------------------------------------------------------------------------
(* Bounds of the model *)

MaxTime == 3
MaxDur == 2
MaxVal == 1
MaxWrites == 1

None == <<>>
Some(v) == <<v>>

Kinds == {"VEVENT", "VTODO", "VJOURNAL"}
Time == 1..MaxTime
OptTime == {None} \cup {Some(t) : t \in Time}
OptDur == {None} \cup {Some(d) : d \in 0..MaxDur}
OptVal == {None} \cup {Some(v) : v \in 1..MaxVal}
ReqVal == {None} \cup {Some(v) : v \in 1..(MaxVal + 1)}

\* bool(d) of a timedelta: the zero duration is falsy, as None is
DurTruthy(d) == d # None /\ d[1] # 0

----------------------------------------------------------------------------
(* The master entity: AbstractComponentWithDuration *)

\* AbstractComponentWithDuration.__init__: every argument is stored as given
Construct(name, dtstamp, uid, dtstart, rrule, summary, exdate, rdate, comment, parent, dtend, due, duration) ==
    [_name |-> name,
     _dtstamp |-> dtstamp, _uid |-> uid, dtstart |-> dtstart, rrule |-> rrule,
     summary |-> summary, exdate |-> exdate, rdate |-> rdate, comment |-> comment,
     _parent |-> parent, dtend |-> dtend, due |-> due, duration |-> duration]

\* the component name of each kind, as a token
NameOf(k) == CASE k = "VEVENT" -> Some(1) [] k = "VTODO" -> Some(2) [] k = "VJOURNAL" -> Some(3)

\* VJournal.ending: the dtstart property
VJournal_ending(m) == m.dtstart

\* VJournal.get_duration: Duration(), the zero duration
VJournal_get_duration(m) == Some(0)

\* VEvent.ending: the explicit end property
VEvent_ending(m) == m.dtend

\* VToDo.ending: the due property
VToDo_ending(m) == m.due

\* VEvent.get_duration and VToDo.get_duration: the explicit duration property, or None
VEvent_get_duration(m) == m.duration

\* the name of the property the ending of each kind reads
ending_property(k) ==
    CASE k = "VJOURNAL" -> "dtstart"
      [] k = "VEVENT" -> "dtend"
      [] k = "VTODO" -> "due"

\* self.ending, dispatched on the class of the entity
ending(k, m) ==
    CASE k = "VJOURNAL" -> VJournal_ending(m)
      [] k = "VEVENT" -> VEvent_ending(m)
      [] k = "VTODO" -> VToDo_ending(m)

\* self.get_duration(), dispatched on the class of the entity
get_duration(k, m) ==
    IF k = "VJOURNAL" THEN VJournal_get_duration(m) ELSE VEvent_get_duration(m)

\* the memo of instance_lru_cache: <<>> is "not computed", <<v>> holds v
NotCached == <<>>
EmptyCache == [start |-> NotCached, end |-> NotCached, computed_duration |-> NotCached]

\* instance_lru_cache: the stored value when there is one, else the computed one
instance_lru_cache(c, name, computed) ==
    IF c[name] # NotCached
    THEN [val |-> c[name][1], cache |-> c, hit |-> TRUE]
    ELSE [val |-> computed.val, cache |-> [computed.cache EXCEPT ![name] = <<computed.val>>],
          hit |-> FALSE]

\* start recomputed on every read: the memo is written but never consulted
start_recomputed(m, c) ==
    LET v == IF m.dtstart # None THEN m.dtstart ELSE None IN
    [val |-> v, cache |-> [c EXCEPT !.start = <<v>>], hit |-> FALSE]

\* AbstractComponentWithDuration.start
start(m, c) ==
    instance_lru_cache(c, "start",
        [val |-> IF m.dtstart # None THEN m.dtstart ELSE None, cache |-> c])

end_body(k, m, c) ==
    IF ending(k, m) # None
    THEN [val |-> ending(k, m), cache |-> c]
    ELSE LET s == start(m, c) IN
         IF s.val # None /\ DurTruthy(get_duration(k, m))
         THEN [val |-> Some(s.val[1] + get_duration(k, m)[1]), cache |-> s.cache]
         ELSE [val |-> None, cache |-> s.cache]

\* AbstractComponentWithDuration.end
end(k, m, c) ==
    instance_lru_cache(c, "end", end_body(k, m, c))

computed_duration_body(k, m, c) ==
    IF DurTruthy(get_duration(k, m))
    THEN [val |-> get_duration(k, m), cache |-> c]
    ELSE LET e == end(k, m, c) IN
         IF e.val = None
         THEN [val |-> None, cache |-> e.cache]
         ELSE LET s == start(m, e.cache) IN
              IF s.val = None
              THEN [val |-> None, cache |-> s.cache]
              ELSE [val |-> Some(e.val[1] - s.val[1]), cache |-> s.cache]

\* AbstractComponentWithDuration.computed_duration
computed_duration(k, m, c) ==
    instance_lru_cache(c, "computed_duration", computed_duration_body(k, m, c))

\* a getter that tests the uid field whatever property is asked for
required_getter_uid_only(m, field) ==
    IF m._uid = None
    THEN [exc |-> "MissingRequiredProperty", val |-> None]
    ELSE [exc |-> "", val |-> m[field]]

\* the getter of a required property: raises when the stored value is None
required_getter(m, field) ==
    IF m[field] = None
    THEN [exc |-> "MissingRequiredProperty", val |-> None]
    ELSE [exc |-> "", val |-> m[field]]

\* the setter of a required property
required_setter(m, field, value) == [m EXCEPT ![field] = value]

\* what reading start, then end, then computed_duration returns in the current state
Derived ==
    LET s == start(master, cache)
        e == end(kind, master, s.cache)
        d == computed_duration(kind, master, e.cache)
    IN [start |-> s.val, end |-> e.val, computed_duration |-> d.val]

----------------------------------------------------------------------------
(* Operations on the master *)

NoGen == [pc |-> "none", from |-> 0, to |-> 0, pending |-> <<>>]

Res(op, exc, val, hit) == [op |-> op, exc |-> exc, val |-> val, hit |-> hit, key |-> "", idx |-> 0]

\* entities built from the required properties, the anchor, the ending and the duration
InitResolver ==
    /\ kind \in Kinds
    /\ \E dtstart \in OptTime, e \in OptTime, d \in OptDur :
          /\ kind = "VJOURNAL" => e = None /\ d = None
          /\ master = Construct(NameOf(kind), Some(1), Some(1), dtstart, None, None, None, None, None, None,
                                IF kind = "VEVENT" THEN e ELSE None,
                                IF kind = "VTODO" THEN e ELSE None, d)
    /\ cache = EmptyCache
    /\ gen = NoGen
    /\ emitted = <<>>
    /\ nwrites = 0
    /\ result = Res("init", "", None, FALSE)

ReadStart ==
    LET r == start(master, cache) IN
    /\ cache' = r.cache
    /\ result' = Res("start", "", r.val, r.hit)
    /\ UNCHANGED <<kind, master, gen, emitted, nwrites>>

ReadEnd ==
    LET r == end(kind, master, cache) IN
    /\ cache' = r.cache
    /\ result' = Res("end", "", r.val, r.hit)
    /\ UNCHANGED <<kind, master, gen, emitted, nwrites>>

ReadComputedDuration ==
    LET r == computed_duration(kind, master, cache) IN
    /\ cache' = r.cache
    /\ result' = Res("computed_duration", "", r.val, r.hit)
    /\ UNCHANGED <<kind, master, gen, emitted, nwrites>>

ReadUid ==
    LET r == required_getter(master, "_uid") IN
    /\ result' = Res("uid", r.exc, r.val, FALSE)
    /\ UNCHANGED <<kind, master, cache, gen, emitted, nwrites>>

ReadDtstamp ==
    LET r == required_getter(master, "_dtstamp") IN
    /\ result' = Res("dtstamp", r.exc, r.val, FALSE)
    /\ UNCHANGED <<kind, master, cache, gen, emitted, nwrites>>

SetUid ==
    \E v \in ReqVal :
        /\ master' = required_setter(master, "_uid", v)
        /\ result' = Res("set_uid", "", v, FALSE)
        /\ UNCHANGED <<kind, cache, gen, emitted, nwrites>>

SetDtstamp ==
    \E v \in ReqVal :
        /\ master' = required_setter(master, "_dtstamp", v)
        /\ result' = Res("set_dtstamp", "", v, FALSE)
        /\ UNCHANGED <<kind, cache, gen, emitted, nwrites>>

\* assignment to the anchor property of the master
SetDtstart ==
    \E v \in OptTime :
        /\ master' = [master EXCEPT !.dtstart = v]
        /\ result' = Res("set_dtstart", "", v, FALSE)
        /\ UNCHANGED <<kind, cache, gen, emitted, nwrites>>

\* assignment to the ending property of the master (dtend of an event, due of a to-do)
SetEnding ==
    \E v \in OptTime :
        /\ kind # "VJOURNAL"
        /\ master' = IF kind = "VEVENT" THEN [master EXCEPT !.dtend = v]
                                        ELSE [master EXCEPT !.due = v]
        /\ result' = Res("set_ending", "", v, FALSE)
        /\ UNCHANGED <<kind, cache, gen, emitted, nwrites>>

\* assignment to the duration property of the master
SetDuration ==
    \E v \in OptDur :
        /\ kind # "VJOURNAL"
        /\ master' = [master EXCEPT !.duration = v]
        /\ result' = Res("set_duration", "", v, FALSE)
        /\ UNCHANGED <<kind, cache, gen, emitted, nwrites>>

NextResolver ==
    \/ ReadStart
    \/ ReadEnd
    \/ ReadComputedDuration
    \/ SetDtstart
    \/ SetEnding
    \/ SetDuration

SpecResolver == InitResolver /\ [][NextResolver]_vars

\* journals built with or without an anchor
InitJournal ==
    /\ kind = "VJOURNAL"
    /\ \E dtstart \in OptTime :
          master = Construct(NameOf(kind), Some(1), Some(1), dtstart, None, None, None, None,
                             None, None, None, None, None)
    /\ cache = EmptyCache
    /\ gen = NoGen
    /\ emitted = <<>>
    /\ nwrites = 0
    /\ result = Res("init", "", None, FALSE)

NextJournal ==
    \/ ReadStart
    \/ ReadEnd
    \/ ReadComputedDuration
    \/ SetDtstart

SpecJournal == InitJournal /\ [][NextJournal]_vars

\* entities built with any combination of the required properties set or unset
InitRequired ==
    /\ kind \in Kinds
    /\ \E dtstamp \in ReqVal, uid \in ReqVal, dtstart \in OptTime :
          master = Construct(NameOf(kind), dtstamp, uid, dtstart, None, None, None, None, None, None,
                             None, None, None)
    /\ cache = EmptyCache
    /\ gen = NoGen
    /\ emitted = <<>>
    /\ nwrites = 0
    /\ result = Res("init", "", None, FALSE)

NextRequired ==
    \/ ReadUid
    \/ ReadDtstamp
    \/ SetUid
    \/ SetDtstamp

SpecRequired == InitRequired /\ [][NextRequired]_vars

----------------------------------------------------------------------------
(* The occurrence: AbstractRecurringComponentWithDuration *)

\* the names of the instance dictionary of an occurrence in this model
InstNames == {"_name", "_dtstamp", "_uid", "dtstart", "rrule", "summary", "exdate", "rdate",
              "comment", "_start", "_end"}

Absent == <<>>

\* the reference to the master, as a value (_original, _parent, original)
MasterRef == Some(0)

\* VRecurringJournal.__init__: the base constructor with its defaults (every property
\* None), then the occurrence's own start and end
NewOccurrence(s, e) ==
    [cls |-> "recurring",
     d |-> [n \in InstNames |->
              CASE n = "_start" -> <<s>>
                [] n = "_end" -> <<e>>
                [] OTHER -> <<None>>]]

\* the master itself, as an item the generator yields
MasterItem == [cls |-> "master", d |-> [n \in InstNames |-> Absent]]

Ok(v) == [exc |-> "", val |-> v]
Raise(e) == [exc |-> e, val |-> None]

\* the property variables every component with a duration has
CommonPropertyNames ==
    {"dtstamp", "uid", "dtstart", "rrule", "summary", "exdate", "rdate", "comment"}

VEventPropertyNames == CommonPropertyNames \cup {"dtend", "duration"}
VToDoPropertyNames == CommonPropertyNames \cup {"due", "duration"}

\* Component.get_property_ical_names: the property variables of the master's class
get_property_ical_names(k) ==
    CASE k = "VEVENT" -> VEventPropertyNames
      [] k = "VTODO" -> VToDoPropertyNames
      [] k = "VJOURNAL" -> CommonPropertyNames

\* Timespan of an instance from its start and end: fails when either is None
timespan_of(s, e) ==
    IF s.val = None \/ e.val = None THEN Raise("ValueError") ELSE Ok(<<s.val[1], e.val[1]>>)

\* object.__getattribute__(master, name): what reading name on the master gives
master_getattr(k, m, c, name) ==
    CASE name \in {"uid", "dtstamp"} -> required_getter(m, IF name = "uid" THEN "_uid" ELSE "_dtstamp")
      [] name = "parent" -> Ok(m._parent)
      [] name = "start" -> Ok(start(m, c).val)
      [] name = "end" -> Ok(end(k, m, c).val)
      [] name = "ending" -> Ok(ending(k, m))
      [] name = "timespan" -> timespan_of(Ok(start(m, c).val), Ok(end(k, m, start(m, c).cache).val))
      [] name \in DOMAIN m -> Ok(m[name])
      [] OTHER -> Raise("AttributeError")

OwnNames == {"_start", "_end", "_original", "_parent", "start", "end", "original", "parent"}
MasterNames == {"_name", "_extra_child_components", "_extra_properties"}

\* the dispatch with the occurrence's own dictionary consulted before the master
getattribute_local_first(k, m, c, o, name) ==
    IF name \in InstNames /\ o.d[name] # Absent /\ o.d[name] # <<None>>
    THEN Ok(o.d[name][1])
    ELSE master_getattr(k, m, c, name)

RECURSIVE getattribute(_, _, _, _, _)
\* AbstractRecurringComponentWithDuration.__getattribute__, with the properties of
\* the class (start, end, original, parent, ending, timespan) it falls back to
getattribute(k, m, c, o, name) ==
    IF name \in OwnNames
    THEN CASE name = "start" -> getattribute(k, m, c, o, "_start")
           [] name = "end" -> getattribute(k, m, c, o, "_end")
           [] name = "original" -> getattribute(k, m, c, o, "_original")
           [] name = "parent" -> master_getattr(k, m, c, "parent")
           [] name \in {"_original", "_parent"} -> Ok(MasterRef)
           [] OTHER -> IF o.d[name] # Absent THEN Ok(o.d[name][1]) ELSE Raise("AttributeError")
    ELSE IF name \in MasterNames
    THEN master_getattr(k, m, c, name)
    ELSE IF name \in get_property_ical_names(k)
    THEN master_getattr(k, m, c, name)
    ELSE CASE name = "ending" ->
                Ok(getattribute(k, m, c, o, ending_property(k)).val)
           [] name = "timespan" ->
                timespan_of(getattribute(k, m, c, o, "start"), getattribute(k, m, c, o, "end"))
           [] name \in InstNames /\ o.d[name] # Absent -> Ok(o.d[name][1])
           [] OTHER -> Raise("AttributeError")

\* reading name on a yielded item: the master itself, or an occurrence
item_getattr(k, m, c, item, name) ==
    IF item.cls = "master" THEN master_getattr(k, m, c, name)
    ELSE getattribute(k, m, c, item, name)

\* the properties of the class that have no setter
ReadOnlyNames == {"start", "end", "original", "parent", "ending", "timespan", "computed_duration"}

\* a write that lands on the master when the name is one of its properties
setattr_write_through(m, o, key, value) ==
    IF key \in ReadOnlyNames THEN [master |-> m, occ |-> o, exc |-> "AttributeError"]
    ELSE IF key \in DOMAIN m
    THEN [master |-> [m EXCEPT ![key] = value], occ |-> o, exc |-> ""]
    ELSE IF key \in {"uid", "dtstamp"}
    THEN [master |-> [m EXCEPT ![IF key = "uid" THEN "_uid" ELSE "_dtstamp"] = value],
          occ |-> o, exc |-> ""]
    ELSE [master |-> m, occ |-> [o EXCEPT !.d[key] = <<value>>], exc |-> ""]

\* AbstractRecurringComponentWithDuration.__setattr__: object.__setattr__(self, key, value)
setattr(m, o, key, value) ==
    IF key \in ReadOnlyNames THEN [master |-> m, occ |-> o, exc |-> "AttributeError"]
    ELSE IF key \in {"uid", "dtstamp"}
    THEN [master |-> m,
          occ |-> [o EXCEPT !.d[IF key = "uid" THEN "_uid" ELSE "_dtstamp"] = <<value>>],
          exc |-> ""]
    ELSE [master |-> m, occ |-> [o EXCEPT !.d[key] = <<value>>], exc |-> ""]

\* AbstractComponentWithDuration.__eq__
Eq(k, m, c, a, b) ==
    IF a.cls # b.cls THEN FALSE
    ELSE /\ item_getattr(k, m, c, a, "dtstart") = item_getattr(k, m, c, b, "dtstart")
         /\ item_getattr(k, m, c, a, "ending") = item_getattr(k, m, c, b, "ending")
         /\ item_getattr(k, m, c, a, "summary") = item_getattr(k, m, c, b, "summary")
         /\ item_getattr(k, m, c, a, "comment") = item_getattr(k, m, c, b, "comment")

----------------------------------------------------------------------------
(* Expansion: VJournal.expand_component_in_range *)

\* the elements of a set of integers, ascending
RECURSIVE SortedSeq(_)
SortedSeq(S) ==
    IF S = {} THEN <<>>
    ELSE LET x == CHOOSE y \in S : \A z \in S : y <= z IN <<x>> \o SortedSeq(S \ {x})

SeqToSet(q) == {q[i] : i \in 1..Len(q)}

\* property_utils.expand_component_in_range: the instants of the rule (every interval-th
\* instant from the anchor, up to the end of the range) and of RDATE, without those of
\* EXDATE, ascending, each paired with its end, kept when the pair meets [from, to)
expand_pairs(exdate_list, rdate_list, rrule, first_event_start, first_event_duration, from, to) ==
    IF first_event_start = None \/ first_event_duration = None THEN <<>>
    ELSE LET a == first_event_start[1]
             dur == first_event_duration[1]
             byRule == IF rrule = None THEN {}
                       ELSE {t \in a..(to - 1) : (t - a) % rrule[1] = 0}
             starts == (byRule \cup SeqToSet(rdate_list)) \ SeqToSet(exdate_list)
             kept == {t \in starts : t < to /\ t + dur >= from}
             sorted == SortedSeq(kept)
         IN [i \in 1..Len(sorted) |-> <<sorted[i], sorted[i] + dur>>]

\* the first step of the generator with the master yielded only when it meets the range
yield_self_in_range(k, m, c, from, to) ==
    LET s == start(m, c).val
        e == end(k, m, c).val
    IN IF s # None /\ e # None /\ s[1] < to /\ e[1] >= from THEN <<MasterItem>> ELSE <<>>

\* the first step of the generator: yield self
yield_self(k, m, c, from, to) == <<MasterItem>>

\* the query ranges [from, to): from the first instant or from past the last one
Ranges == {<<f, t>> : f \in {1, MaxTime + 1}, t \in {MaxTime + 1, MaxTime + 2}}

ExpandCall ==
    \E r \in Ranges :
        /\ gen.pc = "none"
        /\ r[1] < r[2]
        /\ gen' = [pc |-> "created", from |-> r[1], to |-> r[2], pending |-> <<>>]
        /\ result' = Res("expand", "", None, FALSE)
        /\ UNCHANGED <<kind, master, cache, emitted, nwrites>>

\* next(generator), first call: runs to the first yield
GenYieldSelf ==
    /\ gen.pc = "created"
    /\ emitted' = emitted \o yield_self(kind, master, cache, gen.from, gen.to)
    /\ gen' = [gen EXCEPT !.pc = "yielded_self"]
    /\ result' = Res("next", "", None, FALSE)
    /\ UNCHANGED <<kind, master, cache, nwrites>>

\* next(generator), second call: builds the iterator (reading start and
\* computed_duration of the master) and runs to the next yield or to the end
GenStartIterator ==
    /\ gen.pc = "yielded_self"
    /\ LET s == start(master, cache)
           d == computed_duration(kind, master, s.cache)
           pairs == expand_pairs(master.exdate, master.rdate, master.rrule, s.val, d.val,
                                 gen.from, gen.to)
       IN /\ cache' = d.cache
          /\ IF pairs = <<>>
             THEN /\ gen' = [gen EXCEPT !.pc = "done"]
                  /\ emitted' = emitted
                  /\ result' = Res("next", "StopIteration", None, FALSE)
             ELSE /\ gen' = [gen EXCEPT !.pc = "iterating", !.pending = Tail(pairs)]
                  /\ emitted' = Append(emitted, NewOccurrence(Some(pairs[1][1]), Some(pairs[1][2])))
                  /\ result' = Res("next", "", None, FALSE)
    /\ UNCHANGED <<kind, master, nwrites>>

\* next(generator), later calls: the next pair of the iterator, or the end
GenYieldOccurrence ==
    /\ gen.pc = "iterating"
    /\ IF gen.pending = <<>>
       THEN /\ gen' = [gen EXCEPT !.pc = "done"]
            /\ emitted' = emitted
            /\ result' = Res("next", "StopIteration", None, FALSE)
       ELSE /\ gen' = [gen EXCEPT !.pending = Tail(gen.pending)]
            /\ emitted' = Append(emitted, NewOccurrence(Some(gen.pending[1][1]),
                                                        Some(gen.pending[1][2])))
            /\ result' = Res("next", "", None, FALSE)
    /\ UNCHANGED <<kind, master, cache, nwrites>>

OccIndices == {i \in 1..Len(emitted) : emitted[i].cls = "recurring"}

\* the occurrence the consumer has just pulled from the generator, if any
LastPulled == {i \in OccIndices : i = Len(emitted)}

WriteKeys == {"summary", "uid", "_name", "_start", "start"}

\* occurrence.key = value, on the occurrence the consumer has just pulled
OccSetAttr ==
    \E i \in LastPulled, key \in WriteKeys, v \in OptVal :
        /\ nwrites < MaxWrites
        /\ LET r == setattr(master, emitted[i], key, v) IN
           /\ master' = r.master
           /\ emitted' = [emitted EXCEPT ![i] = r.occ]
           /\ result' = [op |-> "setattr", exc |-> r.exc, val |-> v, hit |-> FALSE,
                         key |-> key, idx |-> i]
        /\ nwrites' = nwrites + 1
        /\ UNCHANGED <<kind, cache, gen>>

\* entities built with an anchor, an ending, a duration and the recurrence properties:
\* texts is (summary, parent), dates is (rdate, exdate)
InitExpand ==
    /\ kind \in {"VEVENT", "VJOURNAL"}
    /\ \E dtstart \in OptTime, e \in {None, Some(MaxTime)}, d \in {None, Some(0), Some(1)},
          rrule \in {None, Some(1)}, texts \in {<<None, Some(1)>>, <<Some(1), None>>},
          dates \in {<<None, None>>, <<<<3>>, <<2>>>>} :
          /\ kind = "VJOURNAL" => e = None /\ d = None
          /\ master = Construct(NameOf(kind), Some(1), Some(1), dtstart, rrule, texts[1],
                                dates[2], dates[1], None, texts[2],
                                IF kind = "VEVENT" THEN e ELSE None,
                                IF kind = "VTODO" THEN e ELSE None, d)
    /\ cache = EmptyCache
    /\ gen = NoGen
    /\ emitted = <<>>
    /\ nwrites = 0
    /\ result = Res("init", "", None, FALSE)

NextExpand ==
    \/ ExpandCall
    \/ GenYieldSelf
    \/ GenStartIterator
    \/ GenYieldOccurrence
    \/ OccSetAttr

SpecExpand == InitExpand /\ [][NextExpand]_vars

----------------------------------------------------------------------------
(* Properties of the occurrences and of the expansion *)

Occ(i) == emitted[i]
OccGet(i, name) == getattribute(kind, master, cache, emitted[i], name)
MasterGet(name) == master_getattr(kind, master, cache, name)

\* C2: a write on an occurrence leaves the master as it was: its attributes and its memo
C2_WriteLeavesMaster ==
    [][result'.op = "setattr" => (master' = master /\ cache' = cache)]_vars

\* a successful write, on an occurrence, of a value to a name the master holds another value for
C2_Witness ==
    /\ result.op = "setattr"
    /\ result.exc = ""
    /\ result.key = "summary"
    /\ result.val # master.summary
    /\ Occ(result.idx).d["summary"] = <<result.val>>

\* C3: after occurrence.a = v, for a forwarded name a, reading a on that occurrence gives v
\* (the master keeping its own value is C2)
C3_LocalValueShadows ==
    (/\ result.op = "setattr"
     /\ result.exc = ""
     /\ result.key \in get_property_ical_names(kind) \cup MasterNames) =>
        OccGet(result.idx, result.key) = Ok(result.val)

\* the (start, end, summary, comment) of an occurrence, as reads on it give them
EqTuple(i) == <<OccGet(i, "start"), OccGet(i, "end"), OccGet(i, "summary"), OccGet(i, "comment")>>

\* C4: two occurrences are equal exactly when they are of the same kind and their
\* (start, end, summary, comment) are the same
C4_EqualityByTuple ==
    \A i, j \in OccIndices :
        Eq(kind, master, cache, Occ(i), Occ(j)) <=>
            (Occ(i).cls = Occ(j).cls /\ EqTuple(i) = EqTuple(j))

\* the public readable names of a master in this model, and its _name
ReadableNames ==
    get_property_ical_names(kind)
    \cup {"_name", "start", "end", "parent", "ending", "timespan"}

\* what start, end, original and parent of an occurrence give: its own start, end and
\* master, and the parent of the master
OwnFields(i) ==
    /\ OccGet(i, "start") = Ok(Occ(i).d["_start"][1])
    /\ OccGet(i, "end") = Ok(Occ(i).d["_end"][1])
    /\ OccGet(i, "original") = Ok(MasterRef)
    /\ OccGet(i, "parent") = MasterGet("parent")

ForwardedNames == get_property_ical_names(kind) \cup {"_name", "ending"}

C7_MasterFirst ==
    gen.pc \notin {"none", "created"} =>
        /\ Len(emitted) >= 1
        /\ emitted[1] = MasterItem
        /\ \A i \in 2..Len(emitted) : emitted[i].cls = "recurring"

\* an expansion over a range that begins after the master has ended, which produced the
\* master and then an occurrence
C7_Witness ==
    /\ Len(emitted) >= 2
    /\ emitted[1] = MasterItem
    /\ Derived.end # None
    /\ Derived.end[1] < gen.from

----------------------------------------------------------------------------
(* Properties of the derived values and of the required properties *)

\* C1: whenever start and end both resolve to non-null values,
\* end = start + computed_duration
C1_EndIsStartPlusDuration ==
    (Derived.start # None /\ Derived.end # None) =>
        /\ Derived.computed_duration # None
        /\ Derived.end[1] = Derived.start[1] + Derived.computed_duration[1]

\* the end the resolver rule prescribes: the ending when set, else start + duration when
\* both are non-null (a zero-length duration included), else null
ExpectedEnd ==
    IF ending(kind, master) # None THEN ending(kind, master)
    ELSE IF Derived.start # None /\ get_duration(kind, master) # None
         THEN Some(Derived.start[1] + get_duration(kind, master)[1])
         ELSE None

\* C8: a freshly derived end is the ending when set, else start + get_duration when both
\* are non-null, else null
C8_EndRule ==
    (result.op = "end" /\ ~result.hit) => result.val = ExpectedEnd

\* the duration the resolver rule prescribes: get_duration when non-null, else end - start
\* when both are resolvable, else null
ExpectedDuration ==
    IF get_duration(kind, master) # None THEN get_duration(kind, master)
    ELSE IF Derived.end # None /\ Derived.start # None
         THEN Some(Derived.end[1] - Derived.start[1])
         ELSE None

\* C9: a freshly derived computed_duration is get_duration when non-null, else end - start
\* when both are resolvable, else null
C9_DurationRule ==
    (result.op = "computed_duration" /\ ~result.hit) => result.val = ExpectedDuration

DerivedNames == {"start", "end", "computed_duration"}

\* C10: once a derived value has been read, its memo never changes and every later read of
\* it returns the memoized value, whatever is assigned to dtstart, ending or duration
C10_MemoizedOnce ==
    [][\A n \in DerivedNames :
          cache[n] # NotCached =>
              /\ cache'[n] = cache[n]
              /\ result'.op = n => (result'.val = cache[n][1] /\ result'.hit)]_vars

\* a read of start that returned a memoized value the current anchor no longer gives
C10_Witness ==
    /\ result.op = "start"
    /\ result.hit
    /\ result.val # master.dtstart
    /\ master.dtstart # None

ReqField(op) == IF op \in {"uid", "set_uid"} THEN "_uid" ELSE "_dtstamp"

\* C6: reading uid (dtstamp) raises MissingRequiredProperty exactly when the stored value is
\* null, otherwise returns the stored value, which is the one most recently set; a read,
\* failing or not, changes no state
C6_RequiredProperty ==
    [][/\ result'.op \in {"uid", "dtstamp"} =>
            /\ <<kind, master, cache, gen, emitted, nwrites>>' = <<kind, master, cache, gen, emitted, nwrites>>
            /\ result'.exc = "MissingRequiredProperty" <=> master[ReqField(result'.op)] = None
            /\ result'.exc = "" => result'.val = master[ReqField(result'.op)]
            /\ result'.exc # "" => result'.val = None
       /\ result'.op \in {"set_uid", "set_dtstamp"} =>
            master' = [master EXCEPT ![ReqField(result'.op)] = result'.val]
       /\ result'.op \notin {"set_uid", "set_dtstamp"} => master' = master]_vars

\* a read of dtstamp that raised on an entity whose uid is set
C6_Witness ==
    /\ result.op = "dtstamp"
    /\ result.exc = "MissingRequiredProperty"
    /\ master._uid # None

====
